---------------------------- MODULE Spec2Model ----------------------------
(***************************************************************************)
(* A model of the Paxos simulator: the transports and the agent loop of    *)
(* src/paxos/base_classes.py, and the proposer, acceptor and assembly of   *)
(* src/paxos/basic_protocol.py and src/paxos/multi_paxos.py.               *)
(*                                                                         *)
(* Python's None is the empty sequence and a present value v is <<v>>, so  *)
(* that every Optional field compares without a type error.  A Ballot is   *)
(* an object shared by reference between the proposer, the messages and    *)
(* the acceptors' votes: the model keeps the ballots in a heap and passes  *)
(* references [p, k] (the k-th ballot created by proposer p).              *)
(***************************************************************************)
EXTENDS Integers, Sequences, FiniteSets, TLC

\* Bounds of the model.
MaxProposers == 2
MaxAcceptors == 3
MaxInstances == 2
\* The calls of initiate_new_ballot in a run, over all proposers.
MaxInitiations == 2
\* The frames of start() that the stack of an agent's thread admits (the
\* interpreter's recursion limit, less the frames below start()).  In the last
\* of them the stack still has room for start() and the calls it makes itself,
\* but no longer for process_message and what it calls.
RecursionLimit == 3

VARIABLES
    cfg,          \* the parameters of the Assembly and of its messenger
    pc,           \* per agent: the position of its worker thread
    registered,   \* the keys of messenger.delivered (and to_deliver)
    delivered,    \* messenger.delivered: per agent, its mailbox
    to_deliver,   \* UnreliableMessenger.to_deliver: per agent, the pending list
    scheduled,    \* the deliver_message coroutines of the pump's current round
    pump,         \* the position of the messenger's thread
    heap,         \* per proposer, the Ballot objects it has created
    last_tried,   \* Proposer.last_tried, per instance: None or a ballot reference
    responses,    \* Proposer.responses, per instance
    next_ballot,  \* Acceptor.next_ballot, per instance
    last_vote,    \* Acceptor.last_vote, per instance
    ledger,       \* Agent.ledger, per instance
    end,          \* the Event that stops the workers
    main,         \* the position of Assembly.start and what it returned
    sent,         \* history: every message given to send_message
    successes,    \* history: per agent, the Success messages it has handled
    depth         \* per agent: the frames of start() on its thread's stack

vars == <<cfg, pc, registered, delivered, to_deliver, scheduled, pump, heap,
          last_tried, responses, next_ballot, last_vote, ledger, end, main,
          sent, successes, depth>>

None == <<>>
Some(v) == <<v>>
Val(o) == o[1]

-----------------------------------------------------------------------------
\* Dataclasses.

Proposal(v) == [value |-> v]

BallotNumber(bid, aid) == [ballot_id |-> bid, agent_id |-> aid]

\* Mutation of BallotNumberGreater: the comparison reversed.
BallotNumberLess(a, b) ==
    \/ a.ballot_id < b.ballot_id
    \/ a.ballot_id = b.ballot_id /\ a.agent_id < b.agent_id

\* The order of @dataclass(order=True): the tuples (ballot_id, agent_id).
BallotNumberGreater(a, b) ==
    \/ a.ballot_id > b.ballot_id
    \/ a.ballot_id = b.ballot_id /\ a.agent_id > b.agent_id

Ballot(n, d, q, v) == [number |-> n, decree |-> d, quorum |-> q, voters |-> v]

\* Mutation of successful: one voter is enough.
successfulAny(b) == b.voters # {}

successful(b) == b.quorum \subseteq b.voters

Vote(ref, acc) == [ballot |-> ref, acceptor |-> acc]

Message(author, type) ==
    [author_id |-> author, type |-> type, ballot_number |-> None,
     last_vote |-> None, ballot |-> None, decree |-> None, vote |-> None]

-----------------------------------------------------------------------------
\* The assembly: ids come from Agent.counter, proposers first.

Proposers == 0 .. cfg.n_proposers - 1
Acceptors == cfg.n_proposers .. cfg.n_proposers + cfg.n_acceptors - 1
Agents == Proposers \cup Acceptors
Instances == 0 .. cfg.nb_instances - 1

Deref(ref) == heap[ref.p][ref.k]

\* Mutation of QuorumSize: half of the acceptors, rounded down.
QuorumSizeHalf == cfg.n_acceptors \div 2

QuorumSize == (cfg.n_acceptors \div 2) + 1

create_random_quorum == {q \in SUBSET Acceptors : Cardinality(q) = QuorumSize}

make_proposal(p) == Proposal(Some(p))

Initiations ==
    LET RECURSIVE Sum(_)
        Sum(S) == IF S = {} THEN 0
                  ELSE LET p == CHOOSE x \in S : TRUE
                       IN  Len(heap[p]) + Sum(S \ {p})
    IN  Sum(Proposers) \div cfg.nb_instances

-----------------------------------------------------------------------------
\* The messengers.

\* Mutation of Register: an entry that exists is kept as it is.
RegisterKeeping(a, dlv, td) ==
    /\ registered' = registered \cup {a}
    /\ delivered' = dlv
    /\ to_deliver' = td

\* register: a fresh mailbox (and pending list) for the agent.
Register(a, dlv, td) ==
    /\ registered' = registered \cup {a}
    /\ delivered' = [dlv EXCEPT ![a] = <<>>]
    /\ to_deliver' = IF cfg.messenger = "unreliable"
                     THEN [td EXCEPT ![a] = <<>>] ELSE td

\* Mutation of AfterSends: a send creates the entry of a destination that
\* has none.
RECURSIVE AfterSendsAny(_, _, _, _)
AfterSendsAny(box, sends, lost, k) ==
    IF k > Len(sends) THEN box
    ELSE LET s == sends[k]
             nbox == IF k \notin lost
                     THEN [box EXCEPT ![s.to] = Append(@, s.msg)]
                     ELSE box
         IN  AfterSendsAny(nbox, sends, lost, k + 1)

\* send_message for each element of sends, in order, on the lists box;
\* the sends whose index is in lost fail the random() > failure_rate test.
RECURSIVE AfterSends(_, _, _, _)
AfterSends(box, sends, lost, k) ==
    IF k > Len(sends) THEN box
    ELSE LET s == sends[k]
             nbox == IF s.to \in registered /\ k \notin lost
                     THEN [box EXCEPT ![s.to] = Append(@, s.msg)]
                     ELSE box
         IN  AfterSends(nbox, sends, lost, k + 1)

LossChoices(sends) ==
    IF cfg.messenger = "unreliable" /\ cfg.msg_failure
    THEN SUBSET (1 .. Len(sends)) ELSE {{}}

\* The sends of one handler; dlv is the mailboxes after the handler's poll.
Send(dlv, sends) ==
    /\ sent' = sent \cup {sends[k].msg : k \in DOMAIN sends}
    /\ IF cfg.messenger = "reliable"
       THEN /\ delivered' = AfterSends(dlv, sends, {}, 1)
            /\ UNCHANGED to_deliver
       ELSE /\ delivered' = dlv
            /\ \E lost \in LossChoices(sends) :
                   to_deliver' = AfterSends(to_deliver, sends, lost, 1)

\* A sequence listing the elements of a set (the iteration of a Python set).
RECURSIVE SetToSeq(_)
SetToSeq(S) ==
    IF S = {} THEN <<>>
    ELSE LET x == CHOOSE y \in S : \A z \in S : y <= z
         IN  <<x>> \o SetToSeq(S \ {x})

ToEach(dests, m) ==
    LET ds == SetToSeq(dests)
    IN  [k \in 1 .. Len(ds) |-> [to |-> ds[k], msg |-> m]]

\* Mutation of RemoveFirst: the list is left as it is.
RemoveNone(s, m) == s

\* list.remove: without the first element equal to m, if there is one.
RECURSIVE RemoveFirst(_, _)
RemoveFirst(s, m) ==
    IF s = <<>> THEN s
    ELSE IF Head(s) = m THEN Tail(s)
    ELSE <<Head(s)>> \o RemoveFirst(Tail(s), m)

RemoveAt(s, k) == SubSeq(s, 1, k - 1) \o SubSeq(s, k + 1, Len(s))

-----------------------------------------------------------------------------
\* Steps of an agent's loop.  Once the stop signal is set an agent finishes
\* the iteration it is in: at most one poll ("polled"), then at most one
\* ballot ("timed"), and its thread ends.

PcAfter(a, phase) == [pc EXCEPT ![a] = IF end THEN phase ELSE "loop"]

Popped(a) == [delivered EXCEPT ![a] = Tail(@)]

NoSend(dlv) == delivered' = dlv /\ UNCHANGED <<to_deliver, sent>>

\* Mutation of InstanceOf: every ballot number is taken for instance 0.
InstanceOfFirst(b) == 0

\* The instance a ballot number belongs to (basic Paxos has one).
InstanceOf(b) ==
    IF cfg.protocol = "multi" THEN b.ballot_id % cfg.nb_instances ELSE 0

\* An exception in a handler ends the agent's thread.
Raise(a, dlv) ==
    /\ pc' = [pc EXCEPT ![a] = "dead"]
    /\ NoSend(dlv)
    /\ UNCHANGED <<heap, last_tried, responses, next_ballot, last_vote, ledger>>

-----------------------------------------------------------------------------
\* Acceptor.

\* Mutation of on_nextballot: the promise is given whatever the number.
on_nextballot_any(a, m, dlv) ==
    LET b == Val(m.ballot_number)
        idx == InstanceOf(b)
    IN  /\ next_ballot' = [next_ballot EXCEPT ![a][idx] = Some(b)]
        /\ Send(dlv, <<[to |-> m.author_id,
                        msg |-> [Message(a, "LastVote") EXCEPT
                                   !.ballot_number = Some(b),
                                   !.last_vote = last_vote[a][idx]]]>>)
        /\ pc' = PcAfter(a, "polled")
        /\ UNCHANGED <<heap, last_tried, responses, last_vote, ledger>>

on_nextballot(a, m, dlv) ==
    LET b == Val(m.ballot_number)
        idx == InstanceOf(b)
    IN  /\ IF \/ next_ballot[a][idx] = None
              \/ BallotNumberGreater(b, Val(next_ballot[a][idx]))
           THEN /\ next_ballot' = [next_ballot EXCEPT ![a][idx] = Some(b)]
                /\ Send(dlv, <<[to |-> m.author_id,
                                msg |-> [Message(a, "LastVote") EXCEPT
                                           !.ballot_number = Some(b),
                                           !.last_vote = last_vote[a][idx]]]>>)
           ELSE /\ NoSend(dlv)
                /\ UNCHANGED next_ballot
        /\ pc' = PcAfter(a, "polled")
        /\ UNCHANGED <<heap, last_tried, responses, last_vote, ledger>>

\* Mutation of on_beginballot: the vote is cast whatever the promise.
on_beginballot_any(a, m, dlv) ==
    LET ref == Val(m.ballot)
        idx == InstanceOf(Deref(ref).number)
    IN  /\ last_vote' = [last_vote EXCEPT ![a][idx] = Some(Vote(ref, a))]
        /\ Send(dlv, <<[to |-> m.author_id,
                        msg |-> [Message(a, "Voted") EXCEPT
                                   !.vote = Some(Vote(ref, a))]]>>)
        /\ pc' = PcAfter(a, "polled")
        /\ UNCHANGED <<heap, last_tried, responses, next_ballot, ledger>>

on_beginballot(a, m, dlv) ==
    LET ref == Val(m.ballot)
        idx == InstanceOf(Deref(ref).number)
    IN  /\ IF Some(Deref(ref).number) = next_ballot[a][idx]
           THEN /\ last_vote' = [last_vote EXCEPT ![a][idx] = Some(Vote(ref, a))]
                /\ Send(dlv, <<[to |-> m.author_id,
                                msg |-> [Message(a, "Voted") EXCEPT
                                           !.vote = Some(Vote(ref, a))]]>>)
           ELSE /\ NoSend(dlv)
                /\ UNCHANGED last_vote
        /\ pc' = PcAfter(a, "polled")
        /\ UNCHANGED <<heap, last_tried, responses, next_ballot, ledger>>

\* Agent.on_success (basic Paxos) and the on_success of multi_paxos.
on_success(a, m, dlv) ==
    IF cfg.protocol = "multi" /\ m.ballot_number = None
    THEN Raise(a, dlv)
    ELSE LET idx == IF cfg.protocol = "multi"
                    THEN Val(m.ballot_number).ballot_id % cfg.nb_instances
                    ELSE 0
         IN  /\ ledger' = [ledger EXCEPT ![a][idx] = m.decree]
             /\ NoSend(dlv)
             /\ pc' = PcAfter(a, "polled")
             /\ UNCHANGED <<heap, last_tried, responses, next_ballot, last_vote>>

-----------------------------------------------------------------------------
\* Proposer.

\* The ballots of the votes in the responses, in order.
VotedBallots(resp) ==
    LET votes == SelectSeq(resp, LAMBDA v : v # None)
    IN  [k \in 1 .. Len(votes) |-> Val(votes[k]).ballot]

MaxNumber(bs) ==
    CHOOSE n \in {Deref(bs[k]).number : k \in DOMAIN bs} :
        \A k \in DOMAIN bs : ~BallotNumberGreater(Deref(bs[k]).number, n)

\* The first ballot of bs whose number is the greatest.
MaxBallot(bs) ==
    bs[CHOOSE k \in DOMAIN bs :
           /\ Deref(bs[k]).number = MaxNumber(bs)
           /\ \A j \in 1 .. k - 1 : Deref(bs[j]).number # MaxNumber(bs)]

\* Mutation of ChooseDecree: the votes are ignored.
ChooseDecreeOwn(p, resp) == make_proposal(p)

\* Mutation of ChooseDecree: without votes the decree is left as created.
ChooseDecreePlaceholder(p, resp) ==
    IF VotedBallots(resp) # <<>>
    THEN Deref(MaxBallot(VotedBallots(resp))).decree
    ELSE Proposal(None)

\* Mutation of ChooseDecree: the first vote is taken, not the greatest.
ChooseDecreeFirst(p, resp) ==
    IF VotedBallots(resp) # <<>>
    THEN Deref(VotedBallots(resp)[1]).decree
    ELSE make_proposal(p)

\* The decree that satisfies B3: of the first ballot with the greatest number
\* among the votes, or the proposer's own proposal when there is no vote.
ChooseDecree(p, resp) ==
    IF VotedBallots(resp) # <<>>
    THEN Deref(MaxBallot(VotedBallots(resp))).decree
    ELSE make_proposal(p)

\* The index the handlers of multi_paxos find for a ballot number: of the
\* first ballot equal to the last one whose number matches; None if none does.
FindInstance(p, b) ==
    LET matching == {i \in Instances : Deref(Val(last_tried[p][i])).number = b}
    IN  IF matching = {} THEN None
        ELSE LET last == CHOOSE i \in matching : \A j \in matching : j <= i
                 same == {i \in Instances :
                             Deref(Val(last_tried[p][i])) = Deref(Val(last_tried[p][last]))}
             IN  Some(CHOOSE i \in same : \A j \in same : i <= j)

\* Mutation of Located: the number is not compared with last_tried.
LocatedAny(p, b) == Some(InstanceOf(b))

\* The instance of the ballot the message is about, for either protocol.
Located(p, b) ==
    IF cfg.protocol = "multi" THEN FindInstance(p, b)
    ELSE IF Deref(Val(last_tried[p][0])).number = b THEN Some(0) ELSE None

BeginBallotFor(p, ref, decree) ==
    [Message(p, "BeginBallot") EXCEPT !.ballot = Some(ref), !.decree = Some(decree)]

SuccessFor(p, b) ==
    [Message(p, "Success") EXCEPT
        !.decree = Some(b.decree),
        !.ballot_number = IF cfg.protocol = "multi" THEN Some(b.number) ELSE None]

\* Mutation of on_lastvote: the ballot begins with the first response.
on_lastvote_first(p, m, dlv) ==
    IF \E i \in Instances : last_tried[p][i] = None
    THEN Raise(p, dlv)
    ELSE LET found == Located(p, Val(m.ballot_number))
         IN  /\ IF found = None
                THEN /\ NoSend(dlv)
                     /\ UNCHANGED <<responses, heap>>
                ELSE LET idx == Val(found)
                         ref == Val(last_tried[p][idx])
                         resp == Append(responses[p][idx], m.last_vote)
                         decree == ChooseDecree(p, resp)
                     IN  /\ responses' = [responses EXCEPT ![p][idx] = resp]
                         /\ IF Len(resp) = 1
                            THEN /\ heap' = [heap EXCEPT ![ref.p][ref.k].decree = decree]
                                 /\ Send(dlv, ToEach(Deref(ref).quorum,
                                                     BeginBallotFor(p, ref, decree)))
                            ELSE /\ NoSend(dlv)
                                 /\ UNCHANGED heap
             /\ pc' = PcAfter(p, "polled")
             /\ UNCHANGED <<last_tried, next_ballot, last_vote, ledger>>

on_lastvote(p, m, dlv) ==
    IF \E i \in Instances : last_tried[p][i] = None
    THEN Raise(p, dlv)
    ELSE LET found == Located(p, Val(m.ballot_number))
         IN  /\ IF found = None
                THEN /\ NoSend(dlv)
                     /\ UNCHANGED <<responses, heap>>
                ELSE LET idx == Val(found)
                         ref == Val(last_tried[p][idx])
                         resp == Append(responses[p][idx], m.last_vote)
                         decree == ChooseDecree(p, resp)
                     IN  /\ responses' = [responses EXCEPT ![p][idx] = resp]
                         /\ IF Len(resp) = Cardinality(Deref(ref).quorum)
                            THEN /\ heap' = [heap EXCEPT ![ref.p][ref.k].decree = decree]
                                 /\ Send(dlv, ToEach(Deref(ref).quorum,
                                                     BeginBallotFor(p, ref, decree)))
                            ELSE /\ NoSend(dlv)
                                 /\ UNCHANGED heap
             /\ pc' = PcAfter(p, "polled")
             /\ UNCHANGED <<last_tried, next_ballot, last_vote, ledger>>

on_voted(p, m, dlv) ==
    IF \E i \in Instances : last_tried[p][i] = None
    THEN Raise(p, dlv)
    ELSE LET vote == Val(m.vote)
             found == Located(p, Deref(vote.ballot).number)
         IN  /\ IF found = None
                THEN /\ NoSend(dlv)
                     /\ UNCHANGED heap
                ELSE LET ref == Val(last_tried[p][Val(found)])
                         b == [Deref(ref) EXCEPT !.voters = @ \cup {vote.acceptor}]
                     IN  /\ heap' = [heap EXCEPT ![ref.p][ref.k] = b]
                         /\ IF successful(b)
                            THEN Send(dlv, ToEach(Agents, SuccessFor(p, b)))
                            ELSE NoSend(dlv)
             /\ pc' = PcAfter(p, "polled")
             /\ UNCHANGED <<last_tried, responses, next_ballot, last_vote, ledger>>

\* Mutation of NewBallotNumber: the previous ballot is forgotten.
NewBallotNumberFirst(p, idx) == BallotNumber(idx, p)

\* The number of the ballot that initiate_new_ballot starts for instance idx.
NewBallotNumber(p, idx) ==
    IF last_tried[p][idx] = None
    THEN BallotNumber(idx, p)
    ELSE BallotNumber(Deref(Val(last_tried[p][idx])).number.ballot_id
                        + (IF cfg.protocol = "multi" THEN cfg.nb_instances ELSE 1), p)

NextBallotFor(p, b) ==
    [Message(p, "NextBallot") EXCEPT !.ballot_number = Some(b)]

RECURSIVE NextBallotSends(_, _, _)
NextBallotSends(p, quorum, idx) ==
    IF idx >= cfg.nb_instances THEN <<>>
    ELSE ToEach(quorum, NextBallotFor(p, NewBallotNumber(p, idx)))
            \o NextBallotSends(p, quorum, idx + 1)

initiate_new_ballot(p) ==
    /\ pc[p] \in {"loop", "polled"}
    /\ depth[p] < RecursionLimit
    /\ Initiations < cfg.max_initiations
    /\ \E quorum \in create_random_quorum :
          LET base == Len(heap[p])
              made == [k \in 1 .. cfg.nb_instances |->
                          Ballot(NewBallotNumber(p, k - 1), Proposal(None), quorum, {})]
          IN  /\ heap' = [heap EXCEPT ![p] = @ \o made]
              /\ last_tried' = [last_tried EXCEPT ![p] =
                                   [i \in Instances |-> Some([p |-> p, k |-> base + i + 1])]]
              /\ responses' = [responses EXCEPT ![p] = [i \in Instances |-> <<>>]]
              /\ Send(delivered, NextBallotSends(p, quorum, 0))
    /\ pc' = PcAfter(p, "timed")
    /\ UNCHANGED <<cfg, registered, scheduled, pump, next_ballot, last_vote,
                   ledger, end, main, successes, depth>>

-----------------------------------------------------------------------------
\* Agent.start and Proposer.start.

\* The thread starts: it registers with the messenger and enters its loop.
Start(a) ==
    /\ pc[a] = "new"
    /\ pc' = [pc EXCEPT ![a] = "loop"]
    /\ Register(a, delivered, to_deliver)
    /\ depth' = [depth EXCEPT ![a] = 1]
    /\ UNCHANGED <<cfg, scheduled, pump, heap, last_tried, responses,
                   next_ballot, last_vote, ledger, end, main, sent, successes>>

\* get_message then process_message: the dispatch of either agent class.
process_message(a, m, dlv) ==
    IF a \in Proposers
    THEN CASE m.type = "LastVote" -> on_lastvote(a, m, dlv)
           [] m.type = "Voted" -> on_voted(a, m, dlv)
           [] m.type = "Success" -> on_success(a, m, dlv)
           [] OTHER -> /\ NoSend(dlv)
                       /\ pc' = PcAfter(a, "polled")
                       /\ UNCHANGED <<heap, last_tried, responses, next_ballot,
                                      last_vote, ledger>>
    ELSE CASE m.type = "NextBallot" -> on_nextballot(a, m, dlv)
           [] m.type = "BeginBallot" -> on_beginballot(a, m, dlv)
           [] m.type = "Success" -> on_success(a, m, dlv)
           [] OTHER -> /\ NoSend(dlv)
                       /\ pc' = PcAfter(a, "polled")
                       /\ UNCHANGED <<heap, last_tried, responses, next_ballot,
                                      last_vote, ledger>>

\* One iteration of the loop that finds a message.  In the last frame of
\* start() the stack admits, the message is taken from the mailbox and
\* process_message raises RecursionError before it reaches a handler.
Receive(a) ==
    /\ pc[a] = "loop"
    /\ delivered[a] # <<>>
    /\ IF depth[a] < RecursionLimit
       THEN /\ process_message(a, Head(delivered[a]), Popped(a))
            /\ successes' = IF Head(delivered[a]).type = "Success"
                             THEN [successes EXCEPT ![a] = @ + 1] ELSE successes
       ELSE /\ Raise(a, Popped(a))
            /\ UNCHANGED successes
    /\ UNCHANGED <<cfg, registered, scheduled, pump, end, main, depth>>

CanFail(a) == IF a \in Proposers THEN cfg.proposer_fail ELSE cfg.acceptor_fail

\* Mutation of Restart: the restarted agent has lost what it had learned.
RestartClearing(a) ==
    /\ pc[a] = "loop"
    /\ ~end
    /\ CanFail(a)
    /\ IF depth[a] < RecursionLimit
       THEN /\ Register(a, delivered, to_deliver)
            /\ depth' = [depth EXCEPT ![a] = @ + 1]
            /\ UNCHANGED pc
       ELSE /\ pc' = [pc EXCEPT ![a] = "dead"]
            /\ UNCHANGED <<registered, delivered, to_deliver, depth>>
    /\ ledger' = [ledger EXCEPT ![a] = [i \in Instances |-> None]]
    /\ UNCHANGED <<cfg, scheduled, pump, heap, last_tried, responses,
                   next_ballot, last_vote, end, main, sent, successes>>

\* The simulated failure: the loop breaks and start() calls itself, which
\* registers the agent anew; the agent's fields are left as they are. Every
\* failure leaves one more frame of start() on the thread's stack, and the call
\* that would exceed the interpreter's limit raises RecursionError instead: no
\* frame catches it, so the thread ends.
Restart(a) ==
    /\ pc[a] = "loop"
    /\ ~end
    /\ CanFail(a)
    /\ IF depth[a] < RecursionLimit
       THEN /\ Register(a, delivered, to_deliver)
            /\ depth' = [depth EXCEPT ![a] = @ + 1]
            /\ UNCHANGED pc
       ELSE /\ pc' = [pc EXCEPT ![a] = "dead"]
            /\ UNCHANGED <<registered, delivered, to_deliver, depth>>
    /\ UNCHANGED <<cfg, scheduled, pump, heap, last_tried, responses,
                   next_ballot, last_vote, ledger, end, main, sent, successes>>

-----------------------------------------------------------------------------
\* UnreliableMessenger's thread.

\* _start: one round, a deliver_message coroutine for every pending message.
PumpRound ==
    /\ pump = "run"
    /\ \A d \in Agents : scheduled[d] = <<>>
    /\ \E d \in Agents : to_deliver[d] # <<>>
    /\ scheduled' = to_deliver
    /\ pump' = IF end THEN "last" ELSE "run"
    /\ UNCHANGED <<cfg, pc, registered, delivered, to_deliver, heap, last_tried,
                   responses, next_ballot, last_vote, ledger, end, main, sent,
                   successes, depth>>

\* deliver_message, after its delay: with max_delay = 0 the coroutines end
\* in the order they were created.
Deliver(d, k) ==
    /\ k \in DOMAIN scheduled[d]
    /\ cfg.delay \/ k = 1
    /\ delivered' = [delivered EXCEPT ![d] = Append(@, scheduled[d][k])]
    /\ to_deliver' = [to_deliver EXCEPT ![d] = RemoveFirst(@, scheduled[d][k])]
    /\ scheduled' = [scheduled EXCEPT ![d] = RemoveAt(@, k)]
    /\ UNCHANGED <<cfg, pc, registered, pump, heap, last_tried, responses,
                   next_ballot, last_vote, ledger, end, main, sent, successes, depth>>

-----------------------------------------------------------------------------
\* Assembly.start.

\* Mutation of AllLearned: one agent that has learned is enough.
SomeLearned == \E a \in Agents : \A i \in Instances : ledger[a][i] # None

\* The test of the busy wait: no ledger holds None.
AllLearned == \A a \in Agents : \A i \in Instances : ledger[a][i] # None

\* The busy wait ends and the stop signal is set.
AssemblyStop ==
    /\ main.pc = "polling"
    /\ AllLearned
    /\ end' = TRUE
    /\ main' = [main EXCEPT !.pc = "stopped"]
    /\ UNCHANGED <<cfg, pc, registered, delivered, to_deliver, scheduled, pump,
                   heap, last_tried, responses, next_ballot, last_vote, ledger,
                   sent, successes, depth>>

\* The distinct ledgers, the assertion and the value returned.
AssemblyReturn ==
    /\ main.pc = "stopped"
    /\ LET ledgers == {ledger[a] : a \in Agents}
       IN  main' = IF Cardinality(ledgers) = 1
                   THEN [pc |-> "returned", result |-> Some(CHOOSE l \in ledgers : TRUE)]
                   ELSE [pc |-> "assertion failed", result |-> None]
    /\ UNCHANGED <<cfg, pc, registered, delivered, to_deliver, scheduled, pump,
                   heap, last_tried, responses, next_ballot, last_vote, ledger,
                   end, sent, successes, depth>>

-----------------------------------------------------------------------------
\* The assemblies checked.

\* loss: failure_rate > 0; delay: max_delay > 0; pfail, afail: the agents'
\* failure_rate > 0; cap: the ballots the proposers may start in a run.
Config(protocol, n, np, na, messenger, loss, delay, pfail, afail, cap) ==
    [protocol |-> protocol, nb_instances |-> n, n_proposers |-> np,
     n_acceptors |-> na, messenger |-> messenger, msg_failure |-> loss,
     delay |-> delay, proposer_fail |-> pfail, acceptor_fail |-> afail,
     max_initiations |-> cap]

InitWith(c) ==
    /\ cfg = c
    /\ pc = [a \in Agents |-> "new"]
    /\ registered = {}
    /\ delivered = [a \in Agents |-> <<>>]
    /\ to_deliver = [a \in Agents |-> <<>>]
    /\ scheduled = [a \in Agents |-> <<>>]
    /\ pump = IF c.messenger = "unreliable" THEN "run" ELSE "exited"
    /\ heap = [p \in Proposers |-> <<>>]
    /\ last_tried = [p \in Proposers |-> [i \in Instances |-> None]]
    /\ responses = [p \in Proposers |-> [i \in Instances |-> <<>>]]
    /\ next_ballot = [a \in Acceptors |-> [i \in Instances |-> None]]
    /\ last_vote = [a \in Acceptors |-> [i \in Instances |-> None]]
    /\ ledger = [a \in Agents |-> [i \in Instances |-> None]]
    /\ end = FALSE
    /\ main = [pc |-> "polling", result |-> None]
    /\ sent = {}
    /\ successes = [a \in Agents |-> 0]
    /\ depth = [a \in Agents |-> 0]

\* The assemblies of Spec: competing proposers over a reliable transport, with
\* and without failing acceptors; a lossy and delaying transport with failing
\* proposers, and with failing acceptors; failing proposers that may start one
\* ballot more; two instances of the protocol.
Configs ==
    {Config("basic", 1, MaxProposers, MaxAcceptors, "reliable", FALSE, FALSE, FALSE, FALSE, MaxInitiations),
     Config("basic", 1, MaxProposers, MaxAcceptors - 1, "reliable", FALSE, FALSE, FALSE, TRUE, MaxInitiations),
     Config("basic", 1, MaxProposers, 1, "unreliable", TRUE, TRUE, TRUE, FALSE, MaxInitiations),
     Config("basic", 1, 1, MaxAcceptors - 1, "unreliable", TRUE, TRUE, FALSE, TRUE, MaxInitiations),
     Config("basic", 1, MaxProposers, 1, "reliable", FALSE, FALSE, TRUE, FALSE, MaxInitiations + 1),
     Config("multi", MaxInstances, MaxProposers, 1, "reliable", FALSE, FALSE, FALSE, FALSE, MaxInitiations)}

Init == \E c \in Configs : InitWith(c)

Next ==
    \/ \E a \in Agents : Start(a)
    \/ \E a \in Agents : Receive(a)
    \/ \E p \in Proposers : initiate_new_ballot(p)
    \/ \E a \in Agents : Restart(a)
    \/ PumpRound
    \/ \E d \in Agents : \E k \in 1 .. Len(scheduled[d]) : Deliver(d, k)
    \/ AssemblyStop
    \/ AssemblyReturn

Spec == Init /\ [][Next]_vars

-----------------------------------------------------------------------------
\* Assemblies of several acceptors, for the quorums of the ballots.

\* Multi-Paxos: one proposer, which starts its ballots once, and three
\* acceptors over the reliable transport, nobody failing.
ConfigQuorum ==
    Config("multi", MaxInstances, 1, MaxAcceptors, "reliable", FALSE, FALSE, FALSE, FALSE, 1)

\* That assembly, or the one of basic Paxos with competing proposers.
InitQuorum ==
    \/ InitWith(ConfigQuorum)
    \/ InitWith(Config("basic", 1, MaxProposers, MaxAcceptors, "reliable",
                       FALSE, FALSE, FALSE, FALSE, MaxInitiations))

-----------------------------------------------------------------------------
\* A later stretch of a run, for the choice of a decree among several votes.

\* The assembly of three acceptors and two proposers, which may start one
\* ballot more than under Spec.
ConfigB3 ==
    Config("basic", 1, MaxProposers, MaxAcceptors, "reliable", FALSE, FALSE, FALSE, FALSE,
           MaxInitiations + 1)

\* A state that Spec reaches, all threads in their loops. Proposer 0 has started
\* ballot (0, 0) with the quorum of the first acceptors and has their LastVote
\* messages (no vote yet); proposer 1 has then started ballot (0, 1) with the
\* quorum of the last acceptors, whose NextBallot waits in their mailboxes;
\* proposer 0 has then sent BeginBallot, which waits behind it.
InitB3 ==
    LET c == ConfigB3
        size == (c.n_acceptors \div 2) + 1
        quorum0 == c.n_proposers .. c.n_proposers + size - 1
        quorum1 == c.n_proposers + c.n_acceptors - size .. c.n_proposers + c.n_acceptors - 1
        n0 == BallotNumber(0, 0)
        n1 == BallotNumber(0, 1)
        ref0 == [p |-> 0, k |-> 1]
        ref1 == [p |-> 1, k |-> 1]
        decree == Proposal(Some(0))
        next0 == [Message(0, "NextBallot") EXCEPT !.ballot_number = Some(n0)]
        next1 == [Message(1, "NextBallot") EXCEPT !.ballot_number = Some(n1)]
        begin == [Message(0, "BeginBallot") EXCEPT
                      !.ballot = Some(ref0), !.decree = Some(decree)]
    IN  /\ cfg = c
        /\ pc = [a \in Agents |-> "loop"]
        /\ depth = [a \in Agents |-> 1]
        /\ registered = Agents
        /\ delivered = [a \in Agents |->
                           (IF a \in quorum1 THEN <<next1>> ELSE <<>>)
                               \o (IF a \in quorum0 THEN <<begin>> ELSE <<>>)]
        /\ to_deliver = [a \in Agents |-> <<>>]
        /\ scheduled = [a \in Agents |-> <<>>]
        /\ pump = "exited"
        /\ heap = [q \in Proposers |->
                      CASE q = 0 -> <<Ballot(n0, decree, quorum0, {})>>
                        [] q = 1 -> <<Ballot(n1, Proposal(None), quorum1, {})>>
                        [] OTHER -> <<>>]
        /\ last_tried = [q \in Proposers |->
                            [i \in Instances |->
                                CASE q = 0 -> Some(ref0)
                                  [] q = 1 -> Some(ref1)
                                  [] OTHER -> None]]
        /\ responses = [q \in Proposers |->
                           [i \in Instances |->
                               IF q = 0 THEN [j \in 1 .. size |-> None] ELSE <<>>]]
        /\ next_ballot = [a \in Acceptors |->
                             [i \in Instances |-> IF a \in quorum0 THEN Some(n0) ELSE None]]
        /\ last_vote = [a \in Acceptors |-> [i \in Instances |-> None]]
        /\ ledger = [a \in Agents |-> [i \in Instances |-> None]]
        /\ end = FALSE
        /\ main = [pc |-> "polling", result |-> None]
        /\ sent = {next0, next1, begin}
                     \cup {[Message(a, "LastVote") EXCEPT !.ballot_number = Some(n0)] :
                              a \in quorum0}
        /\ successes = [a \in Agents |-> 0]

\* The steps of an assembly on the reliable transport whose agents do not fail.
NextReliable ==
    \/ \E a \in Agents : Start(a)
    \/ \E a \in Agents : Receive(a)
    \/ \E p \in Proposers : initiate_new_ballot(p)
    \/ AssemblyStop
    \/ AssemblyReturn

SpecB3 ==
    /\ \/ InitB3
       \/ InitWith(Config("multi", MaxInstances, MaxProposers, 1, "reliable",
                          FALSE, FALSE, FALSE, FALSE, MaxInitiations))
    /\ [][NextReliable]_vars

SpecQuorum == InitQuorum /\ [][NextReliable]_vars

-----------------------------------------------------------------------------
\* The properties checked.

\* The agents that have failed and started again.
Restarted == {a \in Agents : depth[a] > 1}

\* The order of ballot numbers, written out: a is b or comes before b.
NumberAtMost(a, b) ==
    \/ a = b
    \/ a.ballot_id < b.ballot_id
    \/ a.ballot_id = b.ballot_id /\ a.agent_id < b.agent_id

SuccessfulBallots(p) == {k \in DOMAIN heap[p] : heap[p][k].quorum \subseteq heap[p][k].voters}

\* C1: in every reachable state, any two agents that have learned a decree
\* for an instance hold the same decree, and the assertion that ends
\* Assembly.start() has not failed.
Agreement ==
    /\ \A i \in Instances : \A a1, a2 \in Agents :
          ledger[a1][i] # None /\ ledger[a2][i] # None
              => ledger[a1][i] = ledger[a2][i]
    /\ main.pc # "assertion failed"

\* start() has returned after two proposers each completed a ballot, with
\* different quorums.
AgreementWitness ==
    /\ main.pc = "returned"
    /\ \E p1, p2 \in Proposers :
          /\ p1 # p2
          /\ \E k1 \in SuccessfulBallots(p1), k2 \in SuccessfulBallots(p2) :
                 heap[p1][k1].quorum # heap[p2][k2].quorum

\* C2: every run reaches a state where every agent has learned a decree for
\* every instance. An agent's ledger is written by its own thread only, so the
\* claim requires that no agent's thread has ended while an entry of its ledger
\* is empty: from such a state no run reaches the state the claim promises.
NoThreadEndsUnlearned ==
    \A a \in Agents :
        pc[a] = "dead" => \A i \in Instances : ledger[a][i] # None

\* C3: the stop signal is set only when every agent has learned a decree for
\* every instance.
StopOnlyWhenAllLearned ==
    end => \A a \in Agents : \A i \in Instances : ledger[a][i] # None

\* The stop signal is set in an assembly that runs two instances.
StopWitness == end /\ cfg.nb_instances > 1 /\ main.pc = "stopped"

ValidDecree(d) == \E p \in Proposers : d = Proposal(Some(p))

\* C4: every decree in a BeginBallot or Success message that was sent, in a
\* ledger, or of a ballot an acceptor has voted for, is the proposal of one
\* of the proposers, never the placeholder a ballot is created with.
Validity ==
    /\ \A m \in sent :
          m.type \in {"BeginBallot", "Success"}
              => m.decree # None /\ ValidDecree(Val(m.decree))
    /\ \A m \in sent :
          m.type = "BeginBallot" => ValidDecree(Deref(Val(m.ballot)).decree)
    /\ \A a \in Agents : \A i \in Instances :
          ledger[a][i] # None => ValidDecree(Val(ledger[a][i]))
    /\ \A a \in Acceptors : \A i \in Instances :
          last_vote[a][i] # None
              => ValidDecree(Deref(Val(last_vote[a][i]).ballot).decree)

\* A decree has been learned while another ballot still holds the placeholder.
ValidityWitness ==
    /\ \E a \in Agents : \E i \in Instances : ledger[a][i] # None
    /\ \E p \in Proposers : \E k \in DOMAIN heap[p] : heap[p][k].decree = Proposal(None)
    /\ \E m \in sent : m.type = "Success"

\* C5: from one state to the next, an acceptor's next_ballot[i] never becomes
\* absent again and never decreases.
BallotMonotonicity ==
    [][\A a \in Acceptors : \A i \in Instances :
          next_ballot[a][i] # None
              => /\ next_ballot'[a][i] # None
                 /\ NumberAtMost(Val(next_ballot[a][i]), Val(next_ballot'[a][i]))]_vars

\* An acceptor that has failed and started again has promised two ballots.
BallotMonotonicityWitness ==
    \E a \in Acceptors \cap Restarted : \E m1, m2 \in sent :
        /\ m1.type = "LastVote" /\ m1.author_id = a
        /\ m2.type = "LastVote" /\ m2.author_id = a
        /\ m1.ballot_number # m2.ballot_number

\* C6: an acceptor that has voted has a promise, and the ballot of its last
\* vote is numbered at most its promise.
VoteAtMostPromise ==
    \A a \in Acceptors : \A i \in Instances :
        last_vote[a][i] # None
            => /\ next_ballot[a][i] # None
               /\ NumberAtMost(Deref(Val(last_vote[a][i]).ballot).number,
                               Val(next_ballot[a][i]))

\* An acceptor has voted and has since promised a ballot with a greater number.
VoteAtMostPromiseWitness ==
    \E a \in Acceptors : \E i \in Instances :
        /\ last_vote[a][i] # None
        /\ next_ballot[a][i] # None
        /\ Deref(Val(last_vote[a][i]).ballot).number # Val(next_ballot[a][i])

\* C7: in the step in which an acceptor sends Voted for a ballot, its promise
\* for the ballot's instance is the ballot's number, before and after, and it
\* has sent a LastVote for that number.
PromiseDiscipline ==
    [][\A m \in sent' \ sent :
          m.type = "Voted"
              => LET a == m.author_id
                     n == Deref(Val(m.vote).ballot).number
                     i == IF cfg.nb_instances > 1
                          THEN n.ballot_id % cfg.nb_instances ELSE 0
                 IN  /\ Val(m.vote).acceptor = a
                     /\ next_ballot[a][i] = Some(n)
                     /\ next_ballot'[a][i] = Some(n)
                     /\ \E l \in sent :
                            /\ l.type = "LastVote"
                            /\ l.author_id = a
                            /\ l.ballot_number = Some(n)]_vars

\* An acceptor has voted in one ballot and has promised another one too.
PromiseDisciplineWitness ==
    \E m, l \in sent :
        /\ m.type = "Voted"
        /\ l.type = "LastVote"
        /\ l.author_id = m.author_id
        /\ l.ballot_number # Some(Deref(Val(m.vote).ballot).number)

\* The votes among the responses a proposer has collected.
VotesIn(resp) == {Val(resp[j]) : j \in {k \in DOMAIN resp : resp[k] # None}}

\* C8: in the step in which a proposer sends BeginBallot for its ballot B, the
\* message carries B's decree; if the responses collected for B hold a vote,
\* the decree is that of a vote in a ballot whose number no other vote's
\* exceeds; if they hold none, it is the proposal of the proposer's own id.
B3 ==
    [][\A m \in sent' \ sent :
          m.type = "BeginBallot"
              => LET p == m.author_id
                     ref == Val(m.ballot)
                     B == heap'[ref.p][ref.k]
                     i == IF cfg.nb_instances > 1
                          THEN B.number.ballot_id % cfg.nb_instances ELSE 0
                     votes == VotesIn(responses'[p][i])
                 IN  /\ ref.p = p
                     /\ m.decree = Some(B.decree)
                     /\ Len(responses'[p][i]) = Cardinality(B.quorum)
                     /\ IF votes = {}
                        THEN B.decree = Proposal(Some(p))
                        ELSE \E v \in votes :
                                /\ B.decree = heap[v.ballot.p][v.ballot.k].decree
                                /\ \A w \in votes :
                                       NumberAtMost(heap[w.ballot.p][w.ballot.k].number,
                                                    heap[v.ballot.p][v.ballot.k].number)]_vars

\* A proposer has sent BeginBallot after collecting votes cast in two ballots
\* with different decrees, the first of them in the lower ballot.
B3Witness ==
    \E m \in sent :
        /\ m.type = "BeginBallot"
        /\ last_tried[m.author_id][0] = m.ballot
        /\ LET resp == responses[m.author_id][0]
           IN  /\ Len(resp) = Cardinality(Deref(Val(m.ballot)).quorum)
               /\ \E j, k \in DOMAIN resp :
                      /\ j < k
                      /\ resp[j] # None /\ resp[k] # None
                      /\ Deref(Val(resp[j]).ballot).decree # Deref(Val(resp[k]).ballot).decree
                      /\ Deref(Val(resp[j]).ballot).number.ballot_id
                             <= Deref(Val(resp[k]).ballot).number.ballot_id
                      /\ Deref(Val(resp[j]).ballot).number.agent_id
                             < Deref(Val(resp[k]).ballot).number.agent_id

\* C9: no two ballots, of one proposer or of two, have the same number.
BallotNumberUniqueness ==
    \A p1, p2 \in Proposers :
        \A k1 \in DOMAIN heap[p1] : \A k2 \in DOMAIN heap[p2] :
            (p1 # p2 \/ k1 # k2) => heap[p1][k1].number # heap[p2][k2].number

\* A proposer that has failed and started again has created a second ballot
\* for an instance, and another proposer has created a ballot too.
BallotNumberUniquenessWitness ==
    \E p \in Proposers \cap Restarted :
        /\ Len(heap[p]) > cfg.nb_instances
        /\ \E q \in Proposers \ {p} : heap[q] # <<>>

\* C10: once an agent's ledger[i] holds a decree, it holds the same decree in
\* the next state, whatever the step.
LedgerStable ==
    [][\A a \in Agents : \A i \in Instances :
          ledger[a][i] # None => ledger'[a][i] = ledger[a][i]]_vars

\* An agent that has failed and started again has handled two Success messages.
LedgerStableWitness ==
    \E a \in Restarted : successes[a] >= 2 /\ \A i \in Instances : ledger[a][i] # None

\* C11: in a step in which an agent fails and starts again, an acceptor's
\* next_ballot and last_vote and a proposer's last_tried and responses are
\* empty afterwards, for every instance.
RestartResetsState ==
    [][\A a \in Agents :
          (depth[a] >= 1 /\ depth'[a] > depth[a])
              => \A i \in Instances :
                    IF a \in Proposers
                    THEN last_tried'[a][i] = None /\ responses'[a][i] = <<>>
                    ELSE next_ballot'[a][i] = None /\ last_vote'[a][i] = None]_vars

\* s is a prefix of t.
IsPrefix(s, t) == Len(s) <= Len(t) /\ SubSeq(t, 1, Len(s)) = s

\* C12: on the reliable transport no message is lost and none is reordered:
\* in every step, the mailbox of a registered agent loses at most its head, the
\* message a poll returns, and what remains stays in place at the front, the
\* messages sent in the step behind it.
ReliableMailboxFifo ==
    [][cfg.messenger = "reliable"
          => \A d \in registered :
                \/ IsPrefix(delivered[d], delivered'[d])
                \/ /\ delivered[d] # <<>>
                   /\ IsPrefix(Tail(delivered[d]), delivered'[d])]_vars

\* C13: a send to a destination that is not registered is dropped: in every
\* step, an agent without an entry afterwards has an empty mailbox and an empty
\* pending list, an entry appears only when the agent itself starts, and a
\* proposer that starts a ballot whose quorum has an unregistered member goes
\* on with its loop.
UnregisteredSendDropped ==
    [][/\ \A d \in Agents \ registered' :
             delivered'[d] = <<>> /\ to_deliver'[d] = <<>>
       /\ \A d \in registered' \ registered : depth[d] = 0 /\ depth'[d] = 1
       /\ \A p \in Proposers :
             (/\ Len(heap'[p]) > Len(heap[p])
              /\ ~(heap'[p][Len(heap'[p])].quorum \subseteq registered))
                 => pc'[p] \in {"loop", "timed"}]_vars

\* A proposer in its loop has sent NextBallot for a ballot whose quorum has a
\* member that is not registered, on the transport with a pending list.
UnregisteredSendWitness ==
    \E p \in Proposers : \E k \in DOMAIN heap[p] :
        /\ ~(heap[p][k].quorum \subseteq registered)
        /\ NextBallotFor(p, heap[p][k].number) \in sent
        /\ pc[p] = "loop"
        /\ cfg.messenger = "unreliable"

\* The ballot number a message is about (a Success of Multi-Paxos carries one).
NumberOf(m) ==
    CASE m.type \in {"NextBallot", "LastVote", "Success"} -> Val(m.ballot_number)
      [] m.type = "BeginBallot" -> Deref(Val(m.ballot)).number
      [] m.type = "Voted" -> Deref(Val(m.vote).ballot).number

\* Agent a's state for instance j differs between the two states of a step:
\* its ledger, an acceptor's promise and vote, a proposer's ballot, the
\* ballot's fields and the responses.
SlotChanged(a, j) ==
    \/ ledger'[a][j] # ledger[a][j]
    \/ /\ a \in Acceptors
       /\ \/ next_ballot'[a][j] # next_ballot[a][j]
          \/ last_vote'[a][j] # last_vote[a][j]
    \/ /\ a \in Proposers
       /\ \/ last_tried'[a][j] # last_tried[a][j]
          \/ responses'[a][j] # responses[a][j]
          \/ /\ last_tried[a][j] # None
             /\ heap'[a][Val(last_tried[a][j]).k] # heap[a][Val(last_tried[a][j]).k]

\* C14: in Multi-Paxos with N instances, the k-th ballot a proposer has created
\* belongs to instance (k - 1) mod N and its ballot_id mod N is that instance,
\* last_tried[i] is a ballot of instance i, and a step changes an agent's state
\* for instance j only if the agent starts its ballots in it or handles a
\* message whose ballot number has ballot_id mod N = j.
InstanceRouting ==
    [][cfg.protocol = "multi"
          => /\ \A p \in Proposers : \A k \in DOMAIN heap'[p] :
                   heap'[p][k].number.ballot_id % cfg.nb_instances
                       = (k - 1) % cfg.nb_instances
             /\ \A p \in Proposers : \A i \in Instances :
                   last_tried'[p][i] # None
                       => /\ Val(last_tried'[p][i]).p = p
                          /\ (Val(last_tried'[p][i]).k - 1) % cfg.nb_instances = i
             /\ \A a \in Agents : \A j \in Instances :
                   SlotChanged(a, j)
                       => \/ a \in Proposers /\ Len(heap'[a]) > Len(heap[a])
                          \/ /\ delivered[a] # <<>>
                             /\ IsPrefix(Tail(delivered[a]), delivered'[a])
                             /\ NumberOf(Head(delivered[a])).ballot_id % cfg.nb_instances = j]_vars

\* In Multi-Paxos a proposer has started its ballots twice, an acceptor has
\* voted in instance 1, and an agent has learned instance 0 and not instance 1.
InstanceRoutingWitness ==
    /\ cfg.protocol = "multi"
    /\ \E p \in Proposers : Len(heap[p]) > cfg.nb_instances
    /\ \E a \in Acceptors : last_vote[a][1] # None
    /\ \E b \in Agents : ledger[b][0] # None /\ ledger[b][1] = None

\* C15: handlers never fail: a step in which an agent takes a message from its
\* mailbox does not end its thread; the message is not a LastVote or a Voted for
\* a proposer with an empty entry of last_tried, and in Multi-Paxos a Success
\* carries a ballot number.
HandlersNeverFail ==
    [][\A a \in Agents :
          (/\ pc[a] = "loop"
           /\ delivered[a] # <<>>
           /\ IsPrefix(Tail(delivered[a]), delivered'[a])
           /\ ~IsPrefix(delivered[a], delivered'[a]))
              => LET m == Head(delivered[a])
                 IN  /\ pc'[a] # "dead"
                     /\ (a \in Proposers /\ m.type \in {"LastVote", "Voted"})
                            => \A i \in Instances : last_tried[a][i] # None
                     /\ (cfg.protocol = "multi" /\ m.type = "Success")
                            => m.ballot_number # None]_vars

\* A step in which agent a has taken the first message of its mailbox and the
\* handler of the message has run to its end.
Handles(a) ==
    /\ pc[a] = "loop"
    /\ delivered[a] # <<>>
    /\ IsPrefix(Tail(delivered[a]), delivered'[a])
    /\ ~IsPrefix(delivered[a], delivered'[a])
    /\ depth'[a] = depth[a]
    /\ pc'[a] # "dead"

\* The mailboxes once a has taken its first message.
AfterPoll(a) == [d \in Agents |-> IF d = a THEN Tail(delivered[d]) ELSE delivered[d]]

\* The step of a's handler has sent nothing.
SendsNothing(a) ==
    /\ sent' = sent
    /\ delivered' = AfterPoll(a)
    /\ to_deliver' = to_deliver

\* The step of a's handler has sent msg to the registered agent d, once, and
\* nothing else: msg is behind the messages of d's mailbox (reliable transport)
\* or of d's pending list, unless the transport has lost it.
SendsOnlyTo(a, d, msg) ==
    /\ sent' = sent \cup {msg}
    /\ \A x \in Agents \ {d} :
          delivered'[x] = AfterPoll(a)[x] /\ to_deliver'[x] = to_deliver[x]
    /\ IF cfg.messenger = "reliable"
       THEN /\ delivered'[d] = Append(AfterPoll(a)[d], msg)
            /\ to_deliver'[d] = to_deliver[d]
       ELSE /\ delivered'[d] = AfterPoll(a)[d]
            /\ \/ to_deliver'[d] = Append(to_deliver[d], msg)
               \/ cfg.msg_failure /\ to_deliver'[d] = to_deliver[d]

\* The instance of a ballot number.
SlotOf(b) == IF cfg.nb_instances > 1 THEN b.ballot_id % cfg.nb_instances ELSE 0

\* C16: when an acceptor handles NextBallot{b} for instance i and has no
\* promise for i or b is greater than it, it sets next_ballot[i] to b, leaves its
\* other promises, its votes and its ledger as they are, and sends one message,
\* LastVote{b, last_vote[i]}, to the author; otherwise it changes nothing of
\* its state and sends nothing.
NextBallotEffect ==
    [][\A a \in Acceptors :
          (Handles(a) /\ Head(delivered[a]).type = "NextBallot")
              => LET m == Head(delivered[a])
                     b == Val(m.ballot_number)
                     i == SlotOf(b)
                 IN  /\ last_vote' = last_vote
                     /\ ledger' = ledger
                     /\ \A x \in Acceptors : \A j \in Instances :
                           (x # a \/ j # i) => next_ballot'[x][j] = next_ballot[x][j]
                     /\ IF \/ next_ballot[a][i] = None
                           \/ ~NumberAtMost(b, Val(next_ballot[a][i]))
                        THEN /\ next_ballot'[a][i] = Some(b)
                             /\ m.author_id \in registered
                             /\ SendsOnlyTo(a, m.author_id,
                                    [Message(a, "LastVote") EXCEPT
                                        !.ballot_number = Some(b),
                                        !.last_vote = last_vote[a][i]])
                        ELSE /\ next_ballot'[a][i] = next_ballot[a][i]
                             /\ SendsNothing(a)]_vars

\* An acceptor that has voted has promised a later ballot, with a LastVote that
\* carries its vote, and a NextBallot with a number below its promise has been
\* sent as well.
NextBallotEffectWitness ==
    \E a \in Acceptors : \E l, n \in sent :
        /\ l.type = "LastVote" /\ l.author_id = a
        /\ l.last_vote # None
        /\ next_ballot[a][SlotOf(Val(l.ballot_number))] = l.ballot_number
        /\ n.type = "NextBallot"
        /\ SlotOf(Val(n.ballot_number)) = SlotOf(Val(l.ballot_number))
        /\ n.ballot_number # l.ballot_number
        /\ NumberAtMost(Val(n.ballot_number), Val(l.ballot_number))

\* C17: when an acceptor handles BeginBallot{B} for instance i and B's number
\* is its promise for i, it sets last_vote[i] to its vote in B, leaves its other
\* votes, its promises, its ledger and the ballot as they are, and sends one
\* message, Voted with that vote, to the author; when B's number is not its
\* promise (or it has none) it changes nothing of its state and sends nothing.
BeginBallotEffect ==
    [][\A a \in Acceptors :
          (Handles(a) /\ Head(delivered[a]).type = "BeginBallot")
              => LET m == Head(delivered[a])
                     ref == Val(m.ballot)
                     B == heap[ref.p][ref.k]
                     i == SlotOf(B.number)
                     vote == [ballot |-> ref, acceptor |-> a]
                 IN  /\ next_ballot' = next_ballot
                     /\ ledger' = ledger
                     /\ heap' = heap
                     /\ \A x \in Acceptors : \A j \in Instances :
                           (x # a \/ j # i) => last_vote'[x][j] = last_vote[x][j]
                     /\ IF next_ballot[a][i] # None /\ Val(next_ballot[a][i]) = B.number
                        THEN /\ last_vote'[a][i] = Some(vote)
                             /\ m.author_id \in registered
                             /\ SendsOnlyTo(a, m.author_id,
                                    [Message(a, "Voted") EXCEPT !.vote = Some(vote)])
                        ELSE /\ last_vote'[a][i] = last_vote[a][i]
                             /\ SendsNothing(a)]_vars

\* An acceptor has voted in a ballot, and its promise is not the number of
\* another ballot that has it in its quorum and was begun without its vote.
BeginBallotEffectWitness ==
    \E a \in Acceptors : \E v, g \in sent :
        /\ v.type = "Voted" /\ v.author_id = a
        /\ last_vote[a][SlotOf(Deref(Val(v.vote).ballot).number)] = v.vote
        /\ g.type = "BeginBallot"
        /\ a \in Deref(Val(g.ballot)).quorum
        /\ a \notin Deref(Val(g.ballot)).voters
        /\ SlotOf(Deref(Val(g.ballot)).number) = SlotOf(Deref(Val(v.vote).ballot).number)
        /\ next_ballot[a][SlotOf(Deref(Val(g.ballot)).number)]
              # Some(Deref(Val(g.ballot)).number)

\* The number is that of none of the ballots the proposer is conducting.
Stale(p, n) ==
    \A i \in Instances :
        last_tried[p][i] = None \/ Deref(Val(last_tried[p][i])).number # n

\* C18: when a proposer handles a LastVote or a Voted whose ballot number is
\* that of none of its current ballots, its last_tried, its responses, its
\* ledger and its ballots stay as they are, and it sends nothing.
StaleDropped ==
    [][\A p \in Proposers :
          (/\ Handles(p)
           /\ Head(delivered[p]).type \in {"LastVote", "Voted"}
           /\ Stale(p, NumberOf(Head(delivered[p]))))
              => /\ last_tried' = last_tried
                 /\ responses' = responses
                 /\ ledger' = ledger
                 /\ heap' = heap
                 /\ SendsNothing(p)]_vars

\* On the reliable transport a proposer that never failed has abandoned a
\* ballot before it chose its decree, although every member of the quorum has
\* sent its LastVote and none of them is left in the mailbox: one at least was
\* handled after the ballot was abandoned.
StaleDroppedWitness ==
    /\ cfg.messenger = "reliable"
    /\ \E p \in Proposers : \E k \in DOMAIN heap[p] :
          /\ depth[p] = 1
          /\ Stale(p, heap[p][k].number)
          /\ heap[p][k].decree = Proposal(None)
          /\ Cardinality(heap[p][k].quorum) > 1
          /\ \A a \in heap[p][k].quorum :
                \E l \in sent :
                    /\ l.type = "LastVote" /\ l.author_id = a
                    /\ l.ballot_number = Some(heap[p][k].number)
          /\ \A j \in DOMAIN delivered[p] :
                delivered[p][j].ballot_number # Some(heap[p][k].number)

\* The Success messages of proposer p that the step sends for the first time.
NewSuccesses(p) ==
    {s \in sent' \ sent : s.type = "Success" /\ s.author_id = p}

\* C19: in the step in which handling a Voted makes a proposer's ballot
\* successful, the proposer writes the ballot's decree in its own ledger.
ProposerLearnsOnSuccess ==
    [][\A p \in Proposers :
          (/\ Handles(p)
           /\ Head(delivered[p]).type = "Voted"
           /\ NewSuccesses(p) # {})
              => \A s \in NewSuccesses(p) :
                    \E i \in Instances : ledger'[p][i] = s.decree]_vars

\* The step of a's handler has sent msg to every registered agent, once, and
\* nothing else: msg is behind the messages of each mailbox (reliable
\* transport) or pending list, unless the transport has lost that copy.
SendsToAll(a, msg) ==
    /\ sent' = sent \cup {msg}
    /\ \A d \in Agents \ registered :
          delivered'[d] = AfterPoll(a)[d] /\ to_deliver'[d] = to_deliver[d]
    /\ \A d \in registered :
          IF cfg.messenger = "reliable"
          THEN /\ delivered'[d] = Append(AfterPoll(a)[d], msg)
               /\ to_deliver'[d] = to_deliver[d]
          ELSE /\ delivered'[d] = AfterPoll(a)[d]
               /\ \/ to_deliver'[d] = Append(to_deliver[d], msg)
                  \/ cfg.msg_failure /\ to_deliver'[d] = to_deliver[d]

\* C20: a proposer sends Success only in a step in which it handles a Voted
\* for one of its current ballots and that ballot is successful afterwards,
\* every member of its quorum being among its voters; the Success carries the
\* ballot's decree (and number, in Multi-Paxos) and goes to every agent of the
\* assembly. The voters of a ballot start empty and grow only by the author of
\* a Voted for the ballot's number, handled while the ballot is current.
SuccessOnlyWhenSuccessful ==
    [][/\ \A p \in Proposers : \A s \in NewSuccesses(p) :
             /\ Handles(p)
             /\ Head(delivered[p]).type = "Voted"
             /\ last_tried' = last_tried
             /\ \E i \in Instances :
                   /\ last_tried[p][i] # None
                   /\ LET ref == Val(last_tried[p][i])
                          b == heap'[ref.p][ref.k]
                      IN  /\ b.number = NumberOf(Head(delivered[p]))
                          /\ b.quorum \subseteq b.voters
                          /\ s.decree = Some(b.decree)
                          /\ cfg.protocol = "multi" => s.ballot_number = Some(b.number)
                          /\ SendsToAll(p, s)
       /\ \A p \in Proposers : \A k \in DOMAIN heap'[p] :
             IF k \in DOMAIN heap[p]
             THEN heap'[p][k].voters # heap[p][k].voters
                     => /\ Handles(p)
                        /\ Head(delivered[p]).type = "Voted"
                        /\ LET m == Head(delivered[p])
                           IN  /\ Val(m.vote).acceptor = m.author_id
                               /\ NumberOf(m) = heap[p][k].number
                               /\ heap'[p][k].voters =
                                      heap[p][k].voters \cup {m.author_id}
                               /\ \E i \in Instances :
                                     last_tried[p][i] = Some([p |-> p, k |-> k])
             ELSE heap'[p][k].voters = {}]_vars

\* A Success for a ballot whose quorum has several acceptors, all of them
\* voters, is the last message of every agent's mailbox.
SuccessWitness ==
    \E p \in Proposers : \E k \in DOMAIN heap[p] :
        LET b == heap[p][k]
        IN  /\ Cardinality(b.quorum) > 1
            /\ b.quorum \subseteq b.voters
            /\ \A d \in Agents :
                  /\ delivered[d] # <<>>
                  /\ delivered[d][Len(delivered[d])].type = "Success"
                  /\ delivered[d][Len(delivered[d])].author_id = p
                  /\ delivered[d][Len(delivered[d])].decree = Some(b.decree)

\* The step between ballot numbers of one instance: N in Multi-Paxos, 1 in
\* basic Paxos.
NumberStep == IF cfg.protocol = "multi" THEN cfg.nb_instances ELSE 1

\* The ballots proposer p has created for instance i, as indices of its
\* ballots in the order of creation.
BallotsOf(p, i) == {k \in DOMAIN heap'[p] : (k - 1) % cfg.nb_instances = i}

\* C21: the ballot that initiate_new_ballot creates for instance i has number
\* (i, own id) if the proposer had none for i, and (previous ballot_id + N,
\* own id) otherwise, N being 1 in basic Paxos; no step changes the number of a
\* ballot, so the numbers a proposer uses for one instance increase strictly.
BallotNumbering ==
    [][\A p \in Proposers :
          /\ \A k \in DOMAIN heap[p] :
                k \in DOMAIN heap'[p] /\ heap'[p][k].number = heap[p][k].number
          /\ \A i \in Instances :
                last_tried'[p][i] # last_tried[p][i]
                    => LET new == heap'[p][Val(last_tried'[p][i]).k].number
                       IN  /\ Val(last_tried'[p][i]).k \notin DOMAIN heap[p]
                           /\ new.agent_id = p
                           /\ new.ballot_id =
                                 IF last_tried[p][i] = None THEN i
                                 ELSE Deref(Val(last_tried[p][i])).number.ballot_id
                                         + NumberStep
          /\ \A i \in Instances : \A j, k \in BallotsOf(p, i) :
                j < k => /\ heap'[p][j].number.ballot_id < heap'[p][k].number.ballot_id
                         /\ heap'[p][j].number.agent_id = heap'[p][k].number.agent_id]_vars

\* In Multi-Paxos a proposer has started ballots twice, and an acceptor has
\* promised to one of its second ballots.
BallotNumberingWitness ==
    \E p \in Proposers :
        /\ cfg.protocol = "multi" /\ Len(heap[p]) >= 2 * cfg.nb_instances
                                  /\ cfg.nb_instances > 1
                                  /\ \E a \in Acceptors : \E i \in Instances :
                                        next_ballot[a][i] # None
                                        /\ Val(next_ballot[a][i]).ballot_id >= cfg.nb_instances
                                        /\ Val(next_ballot[a][i]).agent_id = p

\* C22: the quorum of every ballot is a set of acceptors of the assembly with
\* floor(|acceptors| / 2) + 1 members, the quorums of any two ballots have an
\* acceptor in common, and in Multi-Paxos the ballots that one call of
\* initiate_new_ballot creates have the same quorum.
QuorumMajority ==
    /\ \A p \in Proposers : \A k \in DOMAIN heap[p] :
          /\ heap[p][k].quorum \subseteq Acceptors
          /\ 2 * Cardinality(heap[p][k].quorum) > cfg.n_acceptors
          /\ 2 * (Cardinality(heap[p][k].quorum) - 1) <= cfg.n_acceptors
    /\ \A p, q \in Proposers : \A j \in DOMAIN heap[p] : \A k \in DOMAIN heap[q] :
          heap[p][j].quorum \cap heap[q][k].quorum # {}
    /\ \A p \in Proposers : \A j, k \in DOMAIN heap[p] :
          (j - 1) \div cfg.nb_instances = (k - 1) \div cfg.nb_instances
              => heap[p][j].quorum = heap[p][k].quorum

\* Two ballots whose quorums differ and share exactly one acceptor, who has
\* promised to one and then to the other.
QuorumMajorityWitness ==
    \E p, q \in Proposers : \E j \in DOMAIN heap[p] : \E k \in DOMAIN heap[q] :
        /\ heap[p][j].quorum # heap[q][k].quorum
        /\ Cardinality(heap[p][j].quorum \cap heap[q][k].quorum) = 1
        /\ \E a \in heap[p][j].quorum \cap heap[q][k].quorum :
              /\ next_ballot[a][0] = Some(heap[q][k].number)
              /\ \E l \in sent : /\ l.type = "LastVote" /\ l.author_id = a
                                 /\ l.ballot_number = Some(heap[p][j].number)

\* The elements of a list.
Elements(s) == {s[j] : j \in DOMAIN s}

\* The number of positions of s that hold an element of S.
Count(s, S) == Cardinality({j \in DOMAIN s : s[j] \in S})

\* The copies of acceptor a's LastVote for number n in a mailbox, and in the
\* pending list or the deliveries in progress that go with it.
LastVotesOnTheWay(box, pending, inprogress, a, n) ==
    LET Is == {m \in Elements(box) \cup Elements(pending) \cup Elements(inprogress) :
                  m.type = "LastVote" /\ m.author_id = a /\ m.ballot_number = Some(n)}
        np == Count(pending, Is)
        ni == Count(inprogress, Is)
    IN  Count(box, Is) + (IF np > ni THEN np ELSE ni)

\* Those on their way to proposer p.
LastVotesInTransit(a, n, p) ==
    LastVotesOnTheWay(delivered[p], to_deliver[p], scheduled[p], a, n)

\* The step of a's handler has sent msg to every registered agent of dests,
\* once, and nothing else.
SendsToEach(a, dests, msg) ==
    /\ sent' = sent \cup {msg}
    /\ \A d \in Agents \ (registered \cap dests) :
          delivered'[d] = AfterPoll(a)[d] /\ to_deliver'[d] = to_deliver[d]
    /\ \A d \in registered \cap dests :
          IF cfg.messenger = "reliable"
          THEN /\ delivered'[d] = Append(AfterPoll(a)[d], msg)
               /\ to_deliver'[d] = to_deliver[d]
          ELSE /\ delivered'[d] = AfterPoll(a)[d]
               /\ \/ to_deliver'[d] = Append(to_deliver[d], msg)
                  \/ cfg.msg_failure /\ to_deliver'[d] = to_deliver[d]

\* C23: a proposer sends BeginBallot for a ballot B only in the step in which
\* it handles the LastVote that completes the responses for B: every acceptor
\* of B's quorum has sent its LastVote for B's number and no copy of it is left
\* on the way (an acceptor's LastVote for a number is never on the way twice),
\* as many responses are counted as the quorum has members, no BeginBallot for
\* B was sent before, and this one goes to the members of the quorum and to
\* nobody else. The decree of a ballot is the placeholder from its creation to
\* that step, which assigns it, and it does not change afterwards.
BeginBallotOnce ==
    [][/\ \A p \in Proposers :
             (\/ delivered'[p] # delivered[p]
              \/ to_deliver'[p] # to_deliver[p]
              \/ scheduled'[p] # scheduled[p])
                 => \A a \in Acceptors : \A k \in DOMAIN heap'[p] :
                       LastVotesOnTheWay(delivered'[p], to_deliver'[p], scheduled'[p],
                                         a, heap'[p][k].number) <= 1
       /\ \A p \in Proposers :
             (/\ Handles(p)
              /\ Head(delivered[p]).type = "LastVote"
              /\ ~SendsNothing(p))
                 => LET m == Head(delivered[p])
                    IN  \E i \in Instances :
                           /\ last_tried[p][i] # None
                           /\ LET ref == Val(last_tried[p][i])
                                  B == heap'[ref.p][ref.k]
                                  BBefore == heap[ref.p][ref.k]
                              IN  /\ ref.p = p
                                  /\ m.ballot_number = Some(B.number)
                                  /\ m.author_id \in B.quorum
                                  /\ responses'[p][i] = Append(responses[p][i], m.last_vote)
                                  /\ Len(responses'[p][i]) = Cardinality(B.quorum)
                                  /\ \A a \in B.quorum :
                                        /\ \E l \in sent :
                                              /\ l.type = "LastVote"
                                              /\ l.author_id = a
                                              /\ l.ballot_number = Some(B.number)
                                        /\ \A j \in DOMAIN delivered'[p] :
                                              ~(/\ delivered'[p][j].type = "LastVote"
                                                /\ delivered'[p][j].author_id = a
                                                /\ delivered'[p][j].ballot_number = Some(B.number))
                                        /\ LastVotesInTransit(a, B.number, p)
                                              = (IF a = m.author_id THEN 1 ELSE 0)
                                  /\ \A bb \in sent :
                                        bb.type = "BeginBallot" => bb.ballot # Some(ref)
                                  /\ BBefore.decree = Proposal(None)
                                  /\ B.decree # Proposal(None)
                                  /\ SendsToEach(p, B.quorum,
                                        [Message(p, "BeginBallot") EXCEPT
                                            !.ballot = Some(ref),
                                            !.decree = Some(B.decree)])
       /\ \A bb \in sent' \ sent :
             bb.type = "BeginBallot"
                => /\ bb.author_id \in Proposers
                   /\ Handles(bb.author_id)
                   /\ Head(delivered[bb.author_id]).type = "LastVote"
       /\ \A p \in Proposers : \A k \in DOMAIN heap'[p] :
             IF k \in DOMAIN heap[p]
             THEN heap'[p][k].decree # heap[p][k].decree
                     => /\ heap[p][k].decree = Proposal(None)
                        /\ Handles(p)
                        /\ Head(delivered[p]).type = "LastVote"
                        /\ ~SendsNothing(p)
                        /\ \E i \in Instances :
                              last_tried[p][i] = Some([p |-> p, k |-> k])
             ELSE heap'[p][k].decree = Proposal(None)]_vars

\* The BeginBallot of a ballot whose quorum has several acceptors, with as
\* many responses, is the last message of the mailbox of each of them.
BeginBallotOnceWitness ==
    \E p \in Proposers : \E i \in Instances :
        /\ last_tried[p][i] # None
        /\ LET ref == Val(last_tried[p][i])
           IN  /\ Cardinality(Deref(ref).quorum) > 1
               /\ Len(responses[p][i]) = Cardinality(Deref(ref).quorum)
               /\ Deref(ref).decree # Proposal(None)
               /\ \A a \in Deref(ref).quorum :
                     /\ delivered[a] # <<>>
                     /\ delivered[a][Len(delivered[a])].type = "BeginBallot"
                     /\ delivered[a][Len(delivered[a])].ballot = Some(ref)

\* C24: between the setting of the stop signal and the return of start(), which
\* reads the ledgers, no agent handles a message and no ledger is written.
NoHandlerAfterStop ==
    [][(end /\ main.pc = "stopped")
          => /\ \A a \in Agents : ~Handles(a)
             /\ successes' = successes
             /\ ledger' = ledger]_vars

\* C25: every agent of the assembly is registered with the transport before
\* any agent sends a message, so that no send finds its destination
\* unregistered.
RegisteredBeforeAnySend ==
    [][sent' # sent => registered = Agents]_vars

\* C26: the voters of the ballot an acceptor has recorded in last_vote[i] are
\* not changed by a step that leaves the acceptor's vote as it is; in
\* particular not by the proposer's handling of a Voted message.
VotersNotShared ==
    [][\A a \in Acceptors : \A i \in Instances :
          (last_vote[a][i] # None /\ last_vote'[a][i] = last_vote[a][i])
              => LET ref == Val(last_vote[a][i]).ballot
                 IN  heap'[ref.p][ref.k].voters = heap[ref.p][ref.k].voters]_vars

\* The instance a Success message is about.
SuccessSlot(s) == IF cfg.protocol = "multi" THEN SlotOf(Val(s.ballot_number)) ELSE 0

\* BeginBallot has been sent for the k-th ballot of proposer p.
Begun(p, k) ==
    \E m \in sent : m.type = "BeginBallot" /\ m.ballot = Some([p |-> p, k |-> k])

\* C27: for each instance, all the Success messages sent carry the same
\* decree; and once a ballot of an instance is successful with decree d, every
\* ballot of the instance with a greater number for which BeginBallot has been
\* sent has decree d.
ChosenUnique ==
    /\ \A s1, s2 \in sent :
          (/\ s1.type = "Success" /\ s2.type = "Success"
           /\ SuccessSlot(s1) = SuccessSlot(s2))
              => s1.decree = s2.decree
    /\ \A p, q \in Proposers : \A j \in SuccessfulBallots(p) : \A k \in DOMAIN heap[q] :
          (/\ SlotOf(heap[p][j].number) = SlotOf(heap[q][k].number)
           /\ heap[q][k].number # heap[p][j].number
           /\ NumberAtMost(heap[p][j].number, heap[q][k].number)
           /\ Begun(q, k))
              => heap[q][k].decree = heap[p][j].decree

\* Two proposers have each sent Success; the ballot of one of them is
\* successful with a decree that is the other's proposal.
ChosenUniqueWitness ==
    \E p, q \in Proposers :
        /\ p # q
        /\ \E s1, s2 \in sent :
              /\ s1.type = "Success" /\ s1.author_id = p
              /\ s2.type = "Success" /\ s2.author_id = q
        /\ \E k \in SuccessfulBallots(q) :
              /\ Begun(q, k)
              /\ heap[q][k].decree = Proposal(Some(p))

\* C28: a step in which an agent fails and starts again registers it anew:
\* its mailbox is empty afterwards and, on the unreliable transport, its
\* pending list too, whatever they held; the other agents' lists and the
\* deliveries in progress are untouched. A delivery in progress then ends as any
\* other: its message is appended to the mailbox of the destination, is removed
\* from the pending list if it is still there, and the transport's thread goes
\* on.
RestartDiscardsMail ==
    [][/\ \A a \in Agents :
             (depth[a] >= 1 /\ depth'[a] > depth[a])
                => /\ a \in registered'
                   /\ delivered'[a] = <<>>
                   /\ to_deliver'[a] = <<>>
                   /\ \A d \in Agents \ {a} :
                         delivered'[d] = delivered[d] /\ to_deliver'[d] = to_deliver[d]
                   /\ scheduled' = scheduled
                   /\ sent' = sent
       /\ \A d \in Agents :
             scheduled'[d] # scheduled[d] /\ scheduled[d] # <<>>
                => \E k \in DOMAIN scheduled[d] :
                      /\ scheduled'[d] = RemoveAt(scheduled[d], k)
                      /\ delivered'[d] = Append(delivered[d], scheduled[d][k])
                      /\ to_deliver'[d] = RemoveFirst(to_deliver[d], scheduled[d][k])
                      /\ Len(to_deliver'[d]) >= Len(to_deliver[d]) - 1
                      /\ pump' = pump
                      /\ pc' = pc]_vars

\* An agent has failed and started again during a round of deliveries: its
\* pending list is empty, a message of the round has since been delivered to
\* its new mailbox and another is still to come.
RestartDiscardsMailWitness ==
    \E a \in Restarted :
        /\ cfg.messenger = "unreliable"
        /\ pc[a] = "loop"
        /\ to_deliver[a] = <<>>
        /\ scheduled[a] # <<>>
        /\ delivered[a] # <<>>

\* The copies of message m on their way to agent d, given its mailbox, its
\* pending list and its deliveries in progress (a delivery in progress and the
\* pending entry it came from are one copy).
Copies(box, pending, inprogress, m) ==
    LET Is == {m}
        np == Count(pending, Is)
        ni == Count(inprogress, Is)
    IN  Count(box, Is) + (IF np > ni THEN np ELSE ni)

\* The messages on their way to d after a step that has changed one of d's
\* lists.
OnTheWayAfter(d) ==
    IF /\ delivered'[d] = delivered[d]
       /\ to_deliver'[d] = to_deliver[d]
       /\ scheduled'[d] = scheduled[d]
    THEN {}
    ELSE Elements(delivered'[d]) \cup Elements(to_deliver'[d])
            \cup Elements(scheduled'[d])

\* C29: no step of the transport, and no restart, adds a copy of a message to
\* those on their way to an agent: a copy appears only in a step of the
\* message's author, one at a time, and a poll takes one away. An acceptor's
\* LastVote for a number appears only in the step in which its promise becomes
\* that number, which happens once since promises only grow; so whenever a
\* proposer counts a response for a ballot, the responses counted outnumber
\* neither the quorum nor the acceptors that have sent a LastVote for it.
NoDuplication ==
    [][/\ \A d \in Agents : \A m \in OnTheWayAfter(d) :
             LET before == Copies(delivered[d], to_deliver[d], scheduled[d], m)
                 after == Copies(delivered'[d], to_deliver'[d], scheduled'[d], m)
                 a == m.author_id
             IN  /\ after <= before + 1
                 /\ after > before
                       => /\ pc[a] \in {"loop", "polled"}
                          /\ depth'[a] = depth[a]
                          /\ scheduled' = scheduled
                          /\ \/ a \in Proposers /\ heap'[a] # heap[a]
                             \/ Handles(a)
                          /\ m.type = "LastVote"
                                => LET n == Val(m.ballot_number)
                                   IN  /\ next_ballot[a][SlotOf(n)] # Some(n)
                                       /\ next_ballot'[a][SlotOf(n)] = Some(n)
       /\ \A a \in Agents :
             (pc[a] = "loop" /\ delivered[a] # <<>> /\ ~IsPrefix(delivered[a], delivered'[a]))
                => \/ IsPrefix(Tail(delivered[a]), delivered'[a])
                   \/ delivered'[a] = <<>> /\ depth'[a] > depth[a]
       /\ \A p \in Proposers : \A i \in Instances :
             (last_tried'[p][i] # None /\ responses'[p][i] # responses[p][i])
                => LET ref == Val(last_tried'[p][i])
                       B == heap'[ref.p][ref.k]
                       senders == {a \in B.quorum :
                                      \E l \in sent' : /\ l.type = "LastVote"
                                                       /\ l.author_id = a
                                                       /\ l.ballot_number = Some(B.number)}
                   IN  /\ Len(responses'[p][i]) <= Cardinality(senders)
                       /\ Len(responses'[p][i]) <= Cardinality(B.quorum)
                       /\ \A j \in DOMAIN responses'[p][i] :
                             responses'[p][i][j] # None
                                => Val(responses'[p][i][j]).acceptor \in senders]_vars

\* On the unreliable transport a proposer has counted the response of every
\* member of a quorum of several acceptors, one of which has failed and started
\* again; nothing is left on its way to the proposer.
NoDuplicationWitness ==
    /\ cfg.messenger = "unreliable"
    /\ \E p \in Proposers : \E i \in Instances :
          /\ last_tried[p][i] # None
          /\ Cardinality(Deref(Val(last_tried[p][i])).quorum) > 1
          /\ Len(responses[p][i]) = Cardinality(Deref(Val(last_tried[p][i])).quorum)
          /\ Deref(Val(last_tried[p][i])).quorum \cap Restarted # {}
          /\ delivered[p] = <<>> /\ to_deliver[p] = <<>> /\ scheduled[p] = <<>>

=============================================================================
